---------------------------- MODULE Spec2Model ----------------------------
(***************************************************************************)
(* A model of the molecule-detector backend (src/backend/server.py):       *)
(*   - the request handler analyze_molecule with its temporary file and    *)
(*     the OSRA adapter recognize_molecule_with_osra,                      *)
(*   - step 9 of preprocess_image on image dimensions,                     *)
(*   - _otsu_threshold and the binarization of step 6,                     *)
(*   - preprocess_image on pixels.                                         *)
(* Each part has its own specification over its own group of variables;    *)
(* the variables of the other parts stay at their idle values.             *)
(***************************************************************************)
EXTENDS Integers, Sequences, FiniteSets, TLC

VARIABLES
    \* ---- request handler (analyze_molecule) ----
    pc,         \* pc[r]: the position of request r in analyze_molecule
    req,        \* req[r]: the upload of request r
    fs,         \* the temporary directory: file name -> content
    temp_path,  \* temp_path[r]: the local variable temp_path of request r
    smiles,     \* smiles[r]: what recognize_molecule_with_osra returned
    resp,       \* resp[r]: the response of request r
    osra,       \* osra[r]: how the subprocess of request r ended (history)
    trace,      \* trace[r]: the events of request r so far (history)
    \* ---- step 9 of preprocess_image on dimensions ----
    size,       \* image.size, <<w, h>>
    max_dim,    \* the local variable max_dim
    rpc,        \* the position in step 9
    size8,      \* the size step 9 started from (history)
    size9a,     \* the size after the min_dim check (history)
    \* ---- _otsu_threshold and step 6 ----
    image,      \* the grayscale image: its pixels, row by row
    scan,       \* the locals of _otsu_threshold
    opc,        \* the position in step 6
    applied,    \* how many times step 6 has been applied (history)
    gray,       \* the image step 6 was first applied to (history)
    once,       \* the image after the first application (history)
    \* ---- preprocess_image on pixels ----
    im,         \* the local variable image of preprocess_image
    step        \* the step of preprocess_image that runs next

handlerVars == <<pc, req, fs, temp_path, smiles, resp, osra, trace>>
resizeVars == <<size, max_dim, rpc, size8, size9a>>

otsuVars == <<image, scan, opc, applied, gray, once>>
pipeVars == <<im, step>>

vars == <<handlerVars, resizeVars, otsuVars, pipeVars>>

\* What each part leaves alone.
nonHandlerVars == <<resizeVars, otsuVars, pipeVars>>
nonResizeVars == <<handlerVars, otsuVars, pipeVars>>
nonOtsuVars == <<handlerVars, resizeVars, pipeVars>>
nonPipeVars == <<handlerVars, resizeVars, otsuVars>>

(***************************************************************************)
(*                              Bounds                                     *)
(***************************************************************************)
\* Number of requests in flight at once.
NReq == 2
\* Number of names the temporary directory can hand out.
NNames == 3
\* Longest standard output of the engine, in characters.
MaxOut == 2

Requests == 1..NReq
Names == 1..NNames

(***************************************************************************)
(*                  Text: str.strip() and str.split()                      *)
(***************************************************************************)
Whitespace == {" ", "\n"}
Chars == {" ", "\n", "C", "O"}

RECURSIVE SeqsUpTo(_, _)
SeqsUpTo(S, n) ==
    IF n = 0 THEN {<<>>}
    ELSE LET shorter == SeqsUpTo(S, n - 1)
         IN  shorter \cup {Append(s, c) : s \in {t \in shorter : Len(t) = n - 1}, c \in S}

Stdouts == SeqsUpTo(Chars, MaxOut)

\* str.lstrip(): drop the leading whitespace.
RECURSIVE LStrip(_)
LStrip(s) ==
    IF s = <<>> THEN s
    ELSE IF Head(s) \in Whitespace THEN LStrip(Tail(s)) ELSE s

\* str.rstrip(): drop the trailing whitespace.
RECURSIVE RStrip(_)
RStrip(s) ==
    IF s = <<>> THEN s
    ELSE IF s[Len(s)] \in Whitespace THEN RStrip(SubSeq(s, 1, Len(s) - 1)) ELSE s

\* str.strip()
Strip(s) == RStrip(LStrip(s))

\* The leading run of non-whitespace characters of s.
RECURSIVE TakeWord(_)
TakeWord(s) ==
    IF s = <<>> \/ Head(s) \in Whitespace THEN <<>>
    ELSE <<Head(s)>> \o TakeWord(Tail(s))

\* str.split() with no separator: the maximal runs of non-whitespace, in order.
RECURSIVE Split(_)
Split(s) ==
    LET t == LStrip(s)
    IN  IF t = <<>> THEN <<>>
        ELSE LET w == TakeWord(t)
             IN  <<w>> \o Split(SubSeq(t, Len(w) + 1, Len(t)))

(***************************************************************************)
(*                 recognize_molecule_with_osra                            *)
(***************************************************************************)
NoSmiles == <<>>    \* Python's None

\* How subprocess.run(['osra', ...], timeout=30) can end.
Outcomes(stdout) ==
    {[kind |-> "timeout"], [kind |-> "notfound"], [kind |-> "error"]}
    \cup {[kind |-> "exit", returncode |-> rc, stdout |-> stdout] : rc \in {0, 1}}

\* The mutant: the exit status is not looked at.
OsraResultNoStatus(o) ==
    IF o.kind = "exit"
    THEN LET s == Strip(o.stdout)
         IN  IF s # <<>> THEN Split(s)[1] ELSE NoSmiles
    ELSE NoSmiles

\* The value recognize_molecule_with_osra returns for an outcome of the
\* subprocess: the first token of the output of a run that exited with 0,
\* None for everything else (each except clause returns None).
OsraResult(o) ==
    IF o.kind = "exit"
    THEN IF o.returncode = 0
         THEN LET s == Strip(o.stdout)
              IN  IF s # <<>>
                  THEN LET smiles_parts == Split(s)
                       IN  IF smiles_parts # <<>> THEN smiles_parts[1] ELSE NoSmiles
                  ELSE NoSmiles
         ELSE NoSmiles
    ELSE NoSmiles

(***************************************************************************)
(*                         analyze_molecule                                *)
(***************************************************************************)
Absent == [state |-> "absent"]
Empty == [state |-> "empty"]
Partial == [state |-> "partial"]
Png(c) == [state |-> "png", image |-> c]

\* What the engine prints for a file: an image stands for the text OSRA
\* prints when it reads it; a file that is no complete PNG yields nothing.
EngineStdout(f) == IF f.state = "png" THEN f.image ELSE <<>>

NoResp == [status |-> 0]
RespNoImage == [status |-> 400, error |-> "No image provided"]
RespSuccess(s) == [status |-> 200, success |-> TRUE, smiles |-> s]
RespNotRecognized == [status |-> 200, success |-> FALSE, error |-> "Could not recognize molecular structure"]
RespError(e) == [status |-> 500, error |-> e]

NoOsra == [kind |-> "none"]

\* An upload: no 'image' field, bytes PIL cannot identify, a file PIL
\* identifies but cannot load (Image.open is lazy, preprocess_image raises),
\* or a loadable image.
Uploads(contents) ==
    {[field |-> "missing"], [field |-> "garbage"], [field |-> "truncated"]}
    \cup {[field |-> "image", image |-> c] : c \in contents}

Off == [field |-> "off"]

\* The handlers at their entry: request r carries one of uploads[r].
HandlerInit(uploads) ==
    /\ req \in {q \in [Requests -> UNION {uploads[r] : r \in Requests}] :
                    \A r \in Requests : q[r] \in uploads[r]}
    /\ pc = [r \in Requests |-> IF req[r] = Off THEN "off" ELSE "check"]
    /\ fs = [n \in Names |-> Absent]
    /\ temp_path = [r \in Requests |-> 0]
    /\ smiles = [r \in Requests |-> NoSmiles]
    /\ resp = [r \in Requests |-> NoResp]
    /\ osra = [r \in Requests |-> NoOsra]
    /\ trace = [r \in Requests |-> <<>>]

HandlerIdle == HandlerInit([r \in Requests |-> {Off}])

ResizeIdle ==
    /\ size = <<0, 0>> /\ max_dim = 0 /\ rpc = "off"
    /\ size8 = <<0, 0>> /\ size9a = <<0, 0>>

NoScan == [t |-> 0]

OtsuIdle ==
    /\ image = <<>> /\ scan = NoScan /\ opc = "off"
    /\ applied = 0 /\ gray = <<>> /\ once = <<>>

NoImage == [mode |-> "none"]

PipeIdle == im = NoImage /\ step = 0

Log(r, e) == trace' = [trace EXCEPT ![r] = Append(@, e)]

\* return <response>: the response leaves the handler.
Return(r, response) ==
    /\ resp' = [resp EXCEPT ![r] = response]
    /\ pc' = [pc EXCEPT ![r] = "done"]
    /\ Log(r, "respond")

\* if 'image' not in request.files: return 400
CheckField(r) ==
    /\ pc[r] = "check"
    /\ IF req[r].field = "missing"
       THEN Return(r, RespNoImage)
       ELSE /\ pc' = [pc EXCEPT ![r] = "open"]
            /\ UNCHANGED <<resp, trace>>
    /\ UNCHANGED <<req, fs, temp_path, smiles, osra, nonHandlerVars>>

\* image = Image.open(image_file); UnidentifiedImageError is an Exception
\* and is caught by the handler's except clause.
OpenImage(r) ==
    /\ pc[r] = "open"
    /\ IF req[r].field = "garbage"
       THEN Return(r, RespError("cannot identify image file"))
       ELSE /\ pc' = [pc EXCEPT ![r] = "preprocess"]
            /\ Log(r, "decode")
            /\ UNCHANGED resp
    /\ UNCHANGED <<req, fs, temp_path, smiles, osra, nonHandlerVars>>

\* image = preprocess_image(image)
Preprocess(r) ==
    /\ pc[r] = "preprocess"
    /\ IF req[r].field = "truncated"
       THEN Return(r, RespError("image file is truncated"))
       ELSE /\ pc' = [pc EXCEPT ![r] = "mktemp"]
            /\ Log(r, "normalize")
            /\ UNCHANGED resp
    /\ UNCHANGED <<req, fs, temp_path, smiles, osra, nonHandlerVars>>

\* The mutant: a fixed path opened for writing instead of a fresh name.
MkTempFixedName(r) ==
    /\ pc[r] = "mktemp"
    /\ fs' = [fs EXCEPT ![1] = Empty]
    /\ temp_path' = [temp_path EXCEPT ![r] = 1]
    /\ pc' = [pc EXCEPT ![r] = "save"]
    /\ Log(r, "create")
    /\ UNCHANGED <<req, smiles, resp, osra, nonHandlerVars>>

\* with tempfile.NamedTemporaryFile(suffix='.png', delete=False) as temp_file:
\*     temp_path = temp_file.name
\* The file is created with O_EXCL under a name no existing file has; when
\* no such name is found, FileExistsError reaches the except clause.
MkTemp(r) ==
    /\ pc[r] = "mktemp"
    /\ IF \E n \in Names : fs[n] = Absent
       THEN /\ \E n \in Names :
                 /\ fs[n] = Absent
                 /\ fs' = [fs EXCEPT ![n] = Empty]
                 /\ temp_path' = [temp_path EXCEPT ![r] = n]
            /\ pc' = [pc EXCEPT ![r] = "save"]
            /\ Log(r, "create")
            /\ UNCHANGED resp
       ELSE /\ Return(r, RespError("No usable temporary file name found"))
            /\ UNCHANGED <<fs, temp_path>>
    /\ UNCHANGED <<req, smiles, osra, nonHandlerVars>>

\* image.save(temp_path, 'PNG') inside the with block. When it raises
\* (OSError: no space left), the with block closes the file, which
\* delete=False keeps, and the exception reaches the except clause: the
\* try/finally that unlinks the file has not been entered.
SaveImage(r) ==
    /\ pc[r] = "save"
    /\ \/ /\ fs' = [fs EXCEPT ![temp_path[r]] = Png(req[r].image)]
          /\ pc' = [pc EXCEPT ![r] = "osra"]
          /\ UNCHANGED <<resp, trace>>
       \/ /\ fs' = [fs EXCEPT ![temp_path[r]] = Partial]
          /\ Return(r, RespError("No space left on device"))
    /\ UNCHANGED <<req, temp_path, smiles, osra, nonHandlerVars>>

\* The mutant: a timeout is retried.
RecognizeRetry(r) ==
    /\ pc[r] = "osra"
    /\ \E o \in Outcomes(EngineStdout(fs[temp_path[r]])) :
         /\ osra' = [osra EXCEPT ![r] = o]
         /\ smiles' = [smiles EXCEPT ![r] = OsraResult(o)]
         /\ pc' = [pc EXCEPT ![r] = IF o.kind = "timeout" /\ Len(trace[r]) < 5
                                    THEN "osra" ELSE "result"]
    /\ Log(r, "engine")
    /\ UNCHANGED <<req, fs, temp_path, resp, nonHandlerVars>>

\* smiles = recognize_molecule_with_osra(temp_path): one subprocess.run,
\* which reads the file at temp_path and ends within the timeout.
Recognize(r) ==
    /\ pc[r] = "osra"
    /\ \E o \in Outcomes(EngineStdout(fs[temp_path[r]])) :
         /\ osra' = [osra EXCEPT ![r] = o]
         /\ smiles' = [smiles EXCEPT ![r] = OsraResult(o)]
    /\ pc' = [pc EXCEPT ![r] = "result"]
    /\ Log(r, "engine")
    /\ UNCHANGED <<req, fs, temp_path, resp, nonHandlerVars>>

\* if smiles: return jsonify(success) else: return jsonify(failure); the
\* return value is held while the finally clause runs.
BuildResult(r) ==
    /\ pc[r] = "result"
    /\ resp' = [resp EXCEPT ![r] = IF smiles[r] # NoSmiles
                                   THEN RespSuccess(smiles[r])
                                   ELSE RespNotRecognized]
    /\ pc' = [pc EXCEPT ![r] = "exists"]
    /\ UNCHANGED <<req, fs, temp_path, smiles, osra, trace, nonHandlerVars>>

\* finally: if os.path.exists(temp_path):
FinallyExists(r) ==
    /\ pc[r] = "exists"
    /\ pc' = [pc EXCEPT ![r] = IF fs[temp_path[r]] # Absent THEN "unlink" ELSE "return"]
    /\ UNCHANGED <<req, fs, temp_path, smiles, resp, osra, trace, nonHandlerVars>>

\* os.unlink(temp_path); FileNotFoundError replaces the held return value
\* and reaches the except clause.
FinallyUnlink(r) ==
    /\ pc[r] = "unlink"
    /\ IF fs[temp_path[r]] # Absent
       THEN /\ fs' = [fs EXCEPT ![temp_path[r]] = Absent]
            /\ pc' = [pc EXCEPT ![r] = "return"]
            /\ Log(r, "delete")
            /\ UNCHANGED resp
       ELSE /\ Return(r, RespError("No such file or directory"))
            /\ UNCHANGED fs
    /\ UNCHANGED <<req, temp_path, smiles, osra, nonHandlerVars>>

\* The held return value leaves the handler.
ReturnResult(r) ==
    /\ pc[r] = "return"
    /\ Return(r, resp[r])
    /\ UNCHANGED <<req, fs, temp_path, smiles, osra, nonHandlerVars>>

Step(r) ==
    \/ CheckField(r)
    \/ OpenImage(r)
    \/ Preprocess(r)
    \/ MkTemp(r)
    \/ SaveImage(r)
    \/ Recognize(r)
    \/ BuildResult(r)
    \/ FinallyExists(r)
    \/ FinallyUnlink(r)
    \/ ReturnResult(r)

HandlerNext == \E r \in Requests : Step(r)

\* One request whose image is any text the engine can print.
InitHandler ==
    /\ HandlerInit([r \in Requests |-> IF r = 1 THEN Uploads(Stdouts) ELSE {Off}])
    /\ ResizeIdle /\ OtsuIdle /\ PipeIdle

SpecHandler == InitHandler /\ [][HandlerNext]_vars

\* The same, with every step of the request eventually taken: the worker
\* runs the handler to its end, and subprocess.run returns within its
\* timeout.
FairHandler == SpecHandler /\ \A r \in Requests : WF_vars(Step(r))


\* Several requests at once, neighbours carrying different images.
ConcImage(r) == IF r % 2 = 1 THEN <<"C">> ELSE <<"O">>
InitConc ==
    /\ HandlerInit([r \in Requests |-> {[field |-> "image", image |-> ConcImage(r)]}])
    /\ ResizeIdle /\ OtsuIdle /\ PipeIdle

SpecConc == InitConc /\ [][HandlerNext]_vars

(***************************************************************************)
(*                     Claims on the request handler                       *)
(***************************************************************************)
Done(r) == pc[r] = "done"

\* The first whitespace-delimited token of s, read off the positions of s.
HasToken(s) == \E i \in 1..Len(s) : s[i] \notin Whitespace
FirstTokenRef(s) ==
    LET i == CHOOSE k \in 1..Len(s) :
                 s[k] \notin Whitespace /\ \A m \in 1..(k - 1) : s[m] \in Whitespace
        j == CHOOSE k \in i..Len(s) :
                 /\ \A m \in i..k : s[m] \notin Whitespace
                 /\ k = Len(s) \/ s[k + 1] \in Whitespace
    IN  SubSeq(s, i, j)

\* C2 (as claimed): once a request has completed, no temporary file it
\* created exists.
C2_NoTempFileAfterResponse ==
    \A r \in Requests : Done(r) /\ temp_path[r] # 0 => fs[temp_path[r]] = Absent

C4_UndecodableIsClientError ==
    \A r \in Requests : Done(r) /\ req[r].field = "garbage" =>
        /\ resp[r].status \in 400..499
        /\ osra[r] = NoOsra
        /\ temp_path[r] = 0

Rank(e) ==
    CASE e = "decode" -> 1 [] e = "normalize" -> 2 [] e = "create" -> 3
      [] e = "engine" -> 4 [] e = "delete" -> 5 [] e = "respond" -> 6

Ordered(t) == \A i, j \in 1..Len(t) : i < j => Rank(t[i]) < Rank(t[j])

ReachedAdapter(r) == temp_path[r] # 0 /\ fs[temp_path[r]] # Partial /\ pc[r] # "save"

\* C9: the events of a request occur in the order decode, normalize, create,
\* engine, delete, respond, each at most once; a request that reached the
\* adapter has invoked the engine exactly once when it ends; a request
\* without the 'image' field never invokes it; and every request ends with
\* one response.
C9_SingleAttemptInOrder ==
    /\ [](\A r \in Requests :
            /\ Ordered(trace[r])
            /\ Done(r) /\ ReachedAdapter(r) =>
                 trace[r] = <<"decode", "normalize", "create", "engine", "delete", "respond">>
            /\ Done(r) <=> (trace[r] # <<>> /\ trace[r][Len(trace[r])] = "respond")
            /\ req[r].field = "missing" => \A i \in 1..Len(trace[r]) : trace[r][i] # "engine")
    /\ \A r \in Requests : pc[r] # "off" ~> Done(r)

\* C9's case: a request whose engine timed out has ended after one attempt.
C9_Witness ==
    \E r \in Requests :
        /\ Done(r) /\ osra[r].kind = "timeout"
        /\ trace[r] = <<"decode", "normalize", "create", "engine", "delete", "respond">>

HoldsFile(r) == pc[r] \in {"save", "osra", "result", "exists", "unlink"}

\* The response request r gets when it runs alone with the same upload and
\* the same behaviour of the engine and of the disk.
SoloResponse(r) ==
    CASE req[r].field = "missing" -> RespNoImage
      [] req[r].field = "garbage" -> RespError("cannot identify image file")
      [] req[r].field = "truncated" -> RespError("image file is truncated")
      [] req[r].field = "image" ->
            IF osra[r] = NoOsra THEN RespError("No space left on device")
            ELSE IF osra[r].kind = "exit" /\ osra[r].returncode = 0
                    /\ HasToken(req[r].image)
                 THEN RespSuccess(FirstTokenRef(req[r].image))
                 ELSE RespNotRecognized

\* C10: calls in flight hold files of distinct names; the file of a call
\* exists with that call's image from the save to the call's own unlink, so
\* the engine reads what the call wrote and no other call deletes it; and
\* each call's response is the one it gets alone.
C10_Independent ==
    /\ \A r, s \in Requests :
         r # s /\ HoldsFile(r) /\ HoldsFile(s) => temp_path[r] # temp_path[s]
    /\ \A r \in Requests :
         /\ pc[r] \in {"osra", "result", "exists", "unlink"} =>
                fs[temp_path[r]] = Png(req[r].image)
         /\ osra[r].kind = "exit" => osra[r].stdout = req[r].image
         /\ Done(r) => resp[r] = SoloResponse(r)

\* C10's case: two calls with different images hold their files at once,
\* one about to run the engine, the other about to unlink.
C10_Witness ==
    \E r, s \in Requests :
        /\ pc[r] = "osra" /\ pc[s] = "unlink"
        /\ req[r].image # req[s].image


(***************************************************************************)
(*        Step 9 of preprocess_image: resolution normalization             *)
(*                                                                         *)
(* scale = 400 / min_dim (or 1500 / max_dim) is a Python float, and each   *)
(* new dimension is int(dim * scale): one IEEE-754 double division, one    *)
(* double multiplication, both rounded to nearest-even on 53 bits, and a   *)
(* truncation.  ScaledDim computes that value on integers:                 *)
(*   scale = N / 2^e with N the 53-bit rounding of target * 2^e / m, so    *)
(*   m-relative error r = target * 2^e - N * m is known modulo m;          *)
(*   dim * scale = dim * target / m - dim * r / (m * 2^e), and the product *)
(*   rounds below an exact integer quotient X exactly when r > 0 and the   *)
(*   deficit exceeds half the spacing of the doubles below X.              *)
(***************************************************************************)
MIN_DIM == 400
MAX_DIM == 1500
MANTISSA_BITS == 52

Min(a, b) == IF a < b THEN a ELSE b
Max(a, b) == IF a > b THEN a ELSE b

RECURSIVE Pow2(_)
Pow2(n) == IF n = 0 THEN 1 ELSE 2 * Pow2(n - 1)

\* floor(log2(x)) for an integer x >= 1.
RECURSIVE FloorLog2(_)
FloorLog2(x) == IF x < 2 THEN 0 ELSE 1 + FloorLog2(x \div 2)

\* The binary exponent of target / m: the k with 2^k <= target / m < 2^(k+1).
RECURSIVE ExponentUp(_, _, _)
ExponentUp(target, m, k) ==
    IF Pow2(k + 1) * m <= target THEN ExponentUp(target, m, k + 1) ELSE k
RECURSIVE ExponentDown(_, _, _)
ExponentDown(target, m, n) ==
    IF target * Pow2(n) < m THEN ExponentDown(target, m, n + 1) ELSE 0 - n
QuotientExponent(target, m) ==
    IF m <= target THEN ExponentUp(target, m, 0) ELSE ExponentDown(target, m, 0)

\* (x * 2^e) mod n
RECURSIVE ShiftMod(_, _, _)
ShiftMod(x, e, n) == IF e = 0 THEN x % n ELSE ShiftMod((2 * x) % n, e - 1, n)

\* r = target * 2^e - N * m for the double N / 2^e nearest to target / m
\* (ties to the even N): positive when the division rounded down.
ScaleError(target, m) ==
    LET e == MANTISSA_BITS - QuotientExponent(target, m)
        R == ShiftMod(target, e, 2 * m)
        r0 == R % m
        odd == R \div m
    IN  IF 2 * r0 < m THEN r0
        ELSE IF 2 * r0 > m THEN r0 - m
        ELSE IF odd = 0 THEN r0 ELSE r0 - m

\* int(dim * (target / m)) in double arithmetic.
ScaledDim(dim, target, m) ==
    LET X == (dim * target) \div m
        r == ScaleError(target, m)
    IN  IF (dim * target) % m # 0 \/ r <= 0 \/ X = 0 THEN X
        ELSE LET j == FloorLog2(X)
                 E == j - QuotientExponent(target, m) - 1 - (IF Pow2(j) = X THEN 1 ELSE 0)
                 below == IF E >= 0 THEN dim * r > m * Pow2(E)
                                    ELSE dim * r * Pow2(0 - E) > m
             IN  IF below THEN X - 1 ELSE X

\* image.resize((int(w * scale), int(h * scale)), Image.LANCZOS).size
Resized(sz, target, m) ==
    <<ScaledDim(sz[1], target, m), ScaledDim(sz[2], target, m)>>

\* Bound: the sizes entering step 9 are SmallestDim..MaxDim and a few larger
\* ones; step 8 pads every image to at least 31 x 31.
SmallestDim == 31
MaxDim == 130
LargeDims == {400, 1500, 2147, 3000}
Dims == (SmallestDim..MaxDim) \cup LargeDims

ResizeInit ==
    /\ size \in Dims \X Dims
    /\ size8 = size
    /\ size9a = <<0, 0>>
    /\ max_dim = Max(size[1], size[2])
    /\ rpc = "min"

\* if min_dim < 400: scale = 400 / min_dim; image = image.resize(...);
\*     w, h = image.size; max_dim = max(w, h)
CheckMinDim ==
    /\ rpc = "min"
    /\ LET min_dim == Min(size[1], size[2])
       IN  IF min_dim < MIN_DIM
           THEN LET new == Resized(size, MIN_DIM, min_dim)
                IN  /\ size' = new
                    /\ max_dim' = Max(new[1], new[2])
           ELSE UNCHANGED <<size, max_dim>>
    /\ size9a' = size'
    /\ rpc' = "max"
    /\ UNCHANGED <<size8, nonResizeVars>>

\* if max_dim > 1500: scale = 1500 / max_dim; image = image.resize(...)
CheckMaxDim ==
    /\ rpc = "max"
    /\ IF max_dim > MAX_DIM
       THEN size' = Resized(size, MAX_DIM, max_dim)
       ELSE UNCHANGED size
    /\ rpc' = "done"
    /\ UNCHANGED <<max_dim, size8, size9a, nonResizeVars>>

ResizeNext == CheckMinDim \/ CheckMaxDim

InitResize == ResizeInit /\ HandlerIdle /\ OtsuIdle /\ PipeIdle

SpecResize == InitResize /\ [][ResizeNext]_vars

\* C5 (as claimed): a size whose smaller dimension is below 400 is upscaled
\* to a smaller dimension of exactly 400; then a size whose larger dimension
\* is above 1500 is downscaled to a larger dimension of exactly 1500.
C5_ExactBounds ==
    rpc = "done" =>
        /\ Min(size8[1], size8[2]) < MIN_DIM => Min(size9a[1], size9a[2]) = MIN_DIM
        /\ Min(size8[1], size8[2]) >= MIN_DIM => size9a = size8
        /\ Max(size9a[1], size9a[2]) > MAX_DIM => Max(size[1], size[2]) = MAX_DIM
        /\ Max(size9a[1], size9a[2]) <= MAX_DIM => size = size9a


(***************************************************************************)
(*                    Python float arithmetic                              *)
(*                                                                         *)
(* _otsu_threshold computes its score in Python floats (IEEE-754 doubles,  *)
(* round to nearest, ties to even).  A double is modelled exactly, as a    *)
(* record [m, e] of value m * 2^e whose mantissa m is zero or has exactly  *)
(* 53 bits; m and the wider intermediate results are naturals written in   *)
(* base 2^15, least significant digit first, without leading zeros.        *)
(* x ** 2 is taken as the correctly rounded square.                        *)
(***************************************************************************)
BASE == 32768
BASE_BITS == 15
DOUBLE_BITS == 53
\* Extra quotient bits computed by a division before rounding.
DIV_SHIFT == 64

RECURSIVE Norm(_)
Norm(a) == IF a # <<>> /\ a[Len(a)] = 0 THEN Norm(SubSeq(a, 1, Len(a) - 1)) ELSE a

BigOfInt(n) == Norm(<<n % BASE, (n \div BASE) % BASE, n \div (BASE * BASE)>>)

\* a * k + carry, for a digit-sized k.
RECURSIVE MulSmallFrom(_, _, _, _)
MulSmallFrom(a, k, i, carry) ==
    IF i > Len(a) THEN (IF carry = 0 THEN <<>> ELSE <<carry>>)
    ELSE LET p == a[i] * k + carry
         IN  <<p % BASE>> \o MulSmallFrom(a, k, i + 1, p \div BASE)
BigMulSmall(a, k) == Norm(MulSmallFrom(a, k, 1, 0))

Digit(a, i) == IF i <= Len(a) THEN a[i] ELSE 0

RECURSIVE AddFrom(_, _, _, _)
AddFrom(a, b, i, carry) ==
    IF i > Len(a) /\ i > Len(b) THEN (IF carry = 0 THEN <<>> ELSE <<carry>>)
    ELSE LET p == Digit(a, i) + Digit(b, i) + carry
         IN  <<p % BASE>> \o AddFrom(a, b, i + 1, p \div BASE)
BigAdd(a, b) == AddFrom(a, b, 1, 0)

\* a - b, for a >= b.
RECURSIVE SubFrom(_, _, _, _)
SubFrom(a, b, i, borrow) ==
    IF i > Len(a) THEN <<>>
    ELSE LET p == a[i] - Digit(b, i) - borrow
         IN  IF p < 0 THEN <<p + BASE>> \o SubFrom(a, b, i + 1, 1)
                      ELSE <<p>> \o SubFrom(a, b, i + 1, 0)
BigSub(a, b) == Norm(SubFrom(a, b, 1, 0))

\* -1, 0, 1 as a < b, a = b, a > b.
RECURSIVE CmpFrom(_, _, _)
CmpFrom(a, b, i) ==
    IF i = 0 THEN 0
    ELSE IF a[i] < b[i] THEN -1
    ELSE IF a[i] > b[i] THEN 1
    ELSE CmpFrom(a, b, i - 1)
BigCmp(a, b) ==
    IF Len(a) < Len(b) THEN -1
    ELSE IF Len(a) > Len(b) THEN 1
    ELSE CmpFrom(a, b, Len(a))

Zeros(n) == [i \in 1..n |-> 0]

RECURSIVE MulFrom(_, _, _)
MulFrom(a, b, i) ==
    IF i > Len(b) THEN <<>>
    ELSE BigAdd(Zeros(i - 1) \o BigMulSmall(a, b[i]), MulFrom(a, b, i + 1))
BigMul(a, b) == Norm(MulFrom(a, b, 1))

\* Quotient and remainder of a by a digit-sized k, from the top digit down.
RECURSIVE DivSmallFrom(_, _, _, _)
DivSmallFrom(a, k, i, rem) ==
    IF i = 0 THEN [q |-> <<>>, r |-> rem]
    ELSE LET cur == rem * BASE + a[i]
             rest == DivSmallFrom(a, k, i - 1, cur % k)
         IN  [q |-> Append(rest.q, cur \div k), r |-> rest.r]
BigDivSmall(a, k) ==
    LET d == DivSmallFrom(a, k, Len(a), 0) IN [q |-> Norm(d.q), r |-> d.r]

\* a * 2^s and floor(a / 2^s).
BigShl(a, s) ==
    IF a = <<>> THEN a
    ELSE Zeros(s \div BASE_BITS) \o BigMulSmall(a, Pow2(s % BASE_BITS))
BigShr(a, s) ==
    IF s \div BASE_BITS >= Len(a) THEN <<>>
    ELSE BigDivSmall(SubSeq(a, s \div BASE_BITS + 1, Len(a)), Pow2(s % BASE_BITS)).q

\* The number of bits of a.
BitLen(a) ==
    IF a = <<>> THEN 0
    ELSE BASE_BITS * (Len(a) - 1) + FloorLog2(a[Len(a)]) + 1

FZero == [m |-> <<>>, e |-> 0]

\* The double nearest to M * 2^e, ties to the even mantissa.
RoundDouble(M, e) ==
    LET n == BitLen(M)
    IN  IF n = 0 THEN FZero
        ELSE IF n <= DOUBLE_BITS
        THEN [m |-> BigShl(M, DOUBLE_BITS - n), e |-> e - (DOUBLE_BITS - n)]
        ELSE LET s == n - DOUBLE_BITS
                 q2 == BigShr(M, s - 1)
                 sticky == BigShl(q2, s - 1) # M
                 q == BigShr(q2, 1)
                 up == q2[1] % 2 = 1 /\ (sticky \/ q[1] % 2 = 1)
                 q1 == IF up THEN BigAdd(q, <<1>>) ELSE q
             IN  IF BitLen(q1) > DOUBLE_BITS
                 THEN [m |-> BigShr(q1, 1), e |-> e + s + 1]
                 ELSE [m |-> q1, e |-> e + s]

\* a / b for integers a >= 0, b > 0: the quotient to DIV_SHIFT bits and one
\* more bit that stands for a remainder, rounded.
FDiv(a, b) ==
    LET d == BigDivSmall(BigShl(BigOfInt(a), DIV_SHIFT), b)
    IN  RoundDouble(BigAdd(BigMulSmall(d.q, 2), IF d.r # 0 THEN <<1>> ELSE <<>>),
                    0 - (DIV_SHIFT + 1))

\* |x - y|: exact on the common exponent, then rounded.
FAbsDiff(x, y) ==
    IF x.m = <<>> THEN y
    ELSE IF y.m = <<>> THEN x
    ELSE LET e == Min(x.e, y.e)
             X == BigShl(x.m, x.e - e)
             Y == BigShl(y.m, y.e - e)
         IN  IF BigCmp(X, Y) >= 0 THEN RoundDouble(BigSub(X, Y), e)
                                  ELSE RoundDouble(BigSub(Y, X), e)

\* x ** 2
FSquare(x) == RoundDouble(BigMul(x.m, x.m), 2 * x.e)

\* k * x for an integer k (exact as a double) with 0 <= k < BASE.
FMulInt(k, x) == RoundDouble(BigMulSmall(x.m, k), x.e)

\* x > y for x, y >= 0.
FGreater(x, y) ==
    IF x.m = <<>> THEN FALSE
    ELSE IF y.m = <<>> THEN TRUE
    ELSE x.e > y.e \/ (x.e = y.e /\ BigCmp(x.m, y.m) > 0)


(***************************************************************************)
(*                _otsu_threshold and step 6 (binarization)                *)
(***************************************************************************)
LEVELS == 256
DEFAULT_THRESHOLD == 128
WHITE == 255
BLACK == 0

\* image.histogram() of an 'L' image
Histogram(img) ==
    [v \in 0..(LEVELS - 1) |-> Cardinality({i \in 1..Len(img) : img[i] = v})]

\* sum(i * histogram[i] for i in range(lo, hi + 1)), by halves.
RECURSIVE WeightedSum(_, _, _)
WeightedSum(histogram, lo, hi) ==
    IF lo > hi THEN 0
    ELSE IF lo = hi THEN lo * histogram[lo]
    ELSE LET mid == (lo + hi) \div 2
         IN  WeightedSum(histogram, lo, mid) + WeightedSum(histogram, mid + 1, hi)

\* The locals of _otsu_threshold before the loop.
OtsuStart(img) ==
    LET histogram == Histogram(img)
    IN  [histogram |-> histogram,
         total_pixels |-> Len(img),
         total_sum |-> WeightedSum(histogram, 0, LEVELS - 1),
         best_threshold |-> DEFAULT_THRESHOLD,
         best_variance |-> FZero,
         weight_bg |-> 0,
         sum_bg |-> 0,
         t |-> 0,
         looping |-> TRUE,
         variance |-> FZero,
         scored |-> FALSE]

\* variance = weight_bg * weight_fg * (mean_bg - mean_fg) ** 2
Variance(weight_bg, weight_fg, sum_bg, total_sum) ==
    LET mean_bg == FDiv(sum_bg, weight_bg)
        mean_fg == FDiv(total_sum - sum_bg, weight_fg)
    IN  FMulInt(weight_bg * weight_fg, FSquare(FAbsDiff(mean_bg, mean_fg)))

\* The end of one iteration: the next t, or the end of range(256).
NextT(s) ==
    IF s.t = LEVELS - 1 THEN [s EXCEPT !.looping = FALSE] ELSE [s EXCEPT !.t = @ + 1]

\* The value of `variance` in the iteration for s.t.  An empty bucket after
\* the first scored iteration leaves weight_bg, weight_fg, sum_bg and
\* total_sum as they were, and with them the value of the expression, which
\* is then read from the iteration before instead of being recomputed.
IterationVariance(s, weight_bg, weight_fg, sum_bg) ==
    IF s.histogram[s.t] = 0 /\ s.scored
    THEN s.variance
    ELSE Variance(weight_bg, weight_fg, sum_bg, s.total_sum)

\* The mutant: the last maximum wins (>= for >).
OtsuIterationLastWins(s) ==
    LET weight_bg == s.weight_bg + s.histogram[s.t]
        weight_fg == s.total_pixels - weight_bg
        sum_bg == s.sum_bg + s.t * s.histogram[s.t]
    IN  IF weight_bg = 0 THEN NextT(s)
        ELSE IF weight_fg = 0 THEN [s EXCEPT !.weight_bg = weight_bg, !.looping = FALSE]
        ELSE LET variance == IterationVariance(s, weight_bg, weight_fg, sum_bg)
                 scored == [s EXCEPT !.weight_bg = weight_bg, !.sum_bg = sum_bg,
                                     !.variance = variance, !.scored = TRUE]
             IN  IF ~FGreater(s.best_variance, variance)
                 THEN NextT([scored EXCEPT !.best_variance = variance,
                                           !.best_threshold = s.t])
                 ELSE NextT(scored)

\* One iteration of `for t in range(256)`.
OtsuIteration(s) ==
    LET weight_bg == s.weight_bg + s.histogram[s.t]
        weight_fg == s.total_pixels - weight_bg
        sum_bg == s.sum_bg + s.t * s.histogram[s.t]
    IN  IF weight_bg = 0 THEN NextT(s)                                  \* continue
        ELSE IF weight_fg = 0
        THEN [s EXCEPT !.weight_bg = weight_bg, !.looping = FALSE]      \* break
        ELSE LET variance == IterationVariance(s, weight_bg, weight_fg, sum_bg)
                 scored == [s EXCEPT !.weight_bg = weight_bg, !.sum_bg = sum_bg,
                                     !.variance = variance, !.scored = TRUE]
             IN  IF FGreater(variance, s.best_variance)
                 THEN NextT([scored EXCEPT !.best_variance = variance,
                                           !.best_threshold = s.t])
                 ELSE NextT(scored)

\* The mutant: >= for >.
BinarizedInclusive(img, threshold) ==
    [i \in 1..Len(img) |-> IF img[i] >= threshold THEN WHITE ELSE BLACK]

\* image.point(lambda p: 255 if p > threshold else 0, mode='L')
Binarized(img, threshold) ==
    [i \in 1..Len(img) |-> IF img[i] > threshold THEN WHITE ELSE BLACK]

\* Bounds: the images step 6 is applied to have up to MaxPixels pixels with
\* luminances in Luminances, in non-decreasing order (neither the histogram
\* nor the point operation looks at positions).
MaxPixels == 4
Luminances == {0, 1, 2, 254, 255}
Images ==
    {img \in UNION {[1..n -> Luminances] : n \in 1..MaxPixels} :
        \A i \in 1..(Len(img) - 1) : img[i] <= img[i + 1]}

OtsuInit ==
    /\ image \in Images
    /\ gray = image
    /\ once = <<>>
    /\ applied = 0
    /\ scan = NoScan
    /\ opc = "call"

\* threshold = _otsu_threshold(image): the call, up to the loop.
OtsuCall ==
    /\ opc = "call"
    /\ scan' = OtsuStart(image)
    /\ opc' = "loop"
    /\ UNCHANGED <<image, applied, gray, once, nonOtsuVars>>

\* One iteration of the loop.
OtsuLoop ==
    /\ opc = "loop"
    /\ scan.looping
    /\ scan' = OtsuIteration(scan)
    /\ UNCHANGED <<image, opc, applied, gray, once, nonOtsuVars>>

\* return best_threshold, and the point operation of step 6.  Step 6 is
\* then applied once more to its own result.
OtsuReturn ==
    /\ opc = "loop"
    /\ ~scan.looping
    /\ image' = Binarized(image, scan.best_threshold)
    /\ applied' = applied + 1
    /\ once' = IF applied = 0 THEN image' ELSE once
    /\ opc' = IF applied = 0 THEN "call" ELSE "done"
    /\ UNCHANGED <<scan, gray, nonOtsuVars>>

OtsuNext == OtsuCall \/ OtsuLoop \/ OtsuReturn

InitOtsu == OtsuInit /\ HandlerIdle /\ ResizeIdle /\ PipeIdle

SpecOtsu == InitOtsu /\ [][OtsuNext]_vars

(***************************************************************************)
(*                 Claims on _otsu_threshold and step 6                    *)
(***************************************************************************)
PixelValues(img) == {img[i] : i \in 1..Len(img)}
Count(img, v) == Cardinality({i \in 1..Len(img) : img[i] = v})
IsBinary(img) == PixelValues(img) \subseteq {BLACK, WHITE}

\* _otsu_threshold has returned scan.best_threshold for `image`.
Returned == opc = "loop" /\ ~scan.looping

\* The two clusters of an image and the peaks (most frequent values) of each.
LowCluster(img) == {v \in PixelValues(img) : v < DEFAULT_THRESHOLD}
HighCluster(img) == {v \in PixelValues(img) : v >= DEFAULT_THRESHOLD}
Peaks(img, cluster) == {v \in cluster : \A u \in cluster : Count(img, v) >= Count(img, u)}
Bimodal(img) == LowCluster(img) # {} /\ HighCluster(img) # {}

\* C6 (as claimed): for an image with two well-separated peaks a < b (one
\* at least leaves room for a threshold between them), the extreme case of
\* only the values a and b included, the threshold lies strictly between
\* them: a < t < b.
C6_StrictlyBetweenPeaks ==
    Returned /\ Bimodal(image) =>
        \A a \in Peaks(image, LowCluster(image)), b \in Peaks(image, HighCluster(image)) :
            a + 1 < b => a < scan.best_threshold /\ scan.best_threshold < b

\* C6 (amended): for an image whose pixels all have value a or value b,
\* a < b, both present, the threshold is a itself: a <= t < b, and the point
\* operation of step 6 sends a to black and b to white.
C6_AtLowerPeak ==
    Returned =>
        \A a, b \in PixelValues(image) :
            a < b /\ PixelValues(image) = {a, b} =>
                /\ scan.best_threshold = a
                /\ PixelValues(Binarized(image, scan.best_threshold)) = {BLACK, WHITE}

\* C6's case: the scan of an image of exactly two values, neither black nor
\* white and with room between them, has returned the lower one.
C6_Witness ==
    /\ Returned /\ applied = 0
    /\ \E a, b \in Luminances :
         /\ a + 1 < b /\ a > BLACK /\ b < WHITE
         /\ PixelValues(image) = {a, b}
         /\ scan.best_threshold = a

\* C7: step 6 returns a binary image unchanged, and applying it twice to any
\* image gives what applying it once gives.
C7_BinarizationIdempotent ==
    /\ applied >= 1 /\ IsBinary(gray) => once = gray
    /\ opc = "done" => image = once

\* C7's case: step 6 has been applied twice to an image that was not binary
\* and whose binarization has black and white pixels.
C7_Witness ==
    /\ opc = "done" /\ applied = 2
    /\ ~IsBinary(gray)
    /\ PixelValues(once) = {BLACK, WHITE}

\* The reference: weights and sums of the two classes read off the pixels,
\* and scores compared as exact fractions
\*   score(t) = (sum_bg * weight_fg - sum_fg * weight_bg)^2 / (weight_bg * weight_fg).
RECURSIVE SumAtMost(_, _, _)
SumAtMost(img, t, i) ==
    IF i = 0 THEN 0
    ELSE (IF img[i] <= t THEN img[i] ELSE 0) + SumAtMost(img, t, i - 1)
RefWeightBg(img, t) == Cardinality({i \in 1..Len(img) : img[i] <= t})
RefWeightFg(img, t) == Len(img) - RefWeightBg(img, t)
RefSumBg(img, t) == SumAtMost(img, t, Len(img))
RefSumFg(img, t) == SumAtMost(img, LEVELS - 1, Len(img)) - RefSumBg(img, t)
ScoreNum(img, t) ==
    LET d == RefSumBg(img, t) * RefWeightFg(img, t) - RefSumFg(img, t) * RefWeightBg(img, t)
    IN  d * d
ScoreDen(img, t) == RefWeightBg(img, t) * RefWeightFg(img, t)
ScoreAtLeast(img, t, u) ==
    ScoreNum(img, t) * ScoreDen(img, u) >= ScoreNum(img, u) * ScoreDen(img, t)
Splits(img) ==
    {t \in 0..(LEVELS - 1) : RefWeightBg(img, t) > 0 /\ RefWeightFg(img, t) > 0}
RefThreshold(img) ==
    LET S == Splits(img)
    IN  IF S = {} \/ \A t \in S : ScoreNum(img, t) = 0 THEN DEFAULT_THRESHOLD
        ELSE CHOOSE t \in S :
                 /\ \A u \in S : ScoreAtLeast(img, t, u)
                 /\ \A u \in S : u < t => ~ScoreAtLeast(img, u, t)

\* C8 (as claimed): _otsu_threshold returns the lowest t of maximal score, or
\* 128 when no t splits the pixels; and in every scored iteration sum_bg is
\* the sum of the luminances up to t.
C8_AgreesWithReference ==
    /\ opc = "loop" /\ scan.scored /\ scan.looping =>
           scan.sum_bg = RefSumBg(image, scan.t - 1)
    /\ Returned => scan.best_threshold = RefThreshold(image)


(***************************************************************************)
(*                    preprocess_image on pixels                           *)
(*                                                                         *)
(* An image is a record [mode, size, palette, px]: size is <<w, h>>,       *)
(* px[y][x] is the pixel in row y and column x (from 1), and a pixel is a  *)
(* luminance ('L'), a palette index ('P'), <<r, g, b>> ('RGB') or          *)
(* <<r, g, b, a>> ('RGBA').                                                *)
(***************************************************************************)
DARK_MEAN == 128
GREY_CUTOFF == 160
CONTRAST_NUM == 3
CONTRAST_DEN == 2
MEDIAN_SIZE == 3
BORDER_CROP == 3
CROP_MARGIN == 10
PADDING == 15

Width(i) == i.size[1]
Height(i) == i.size[2]

\* The sequence F(1), ..., F(n).
Line(n, F(_)) == SubSeq([x \in 1..n |-> F(x)], 1, n)

\* The pixels F(x, y) of an image of size sz, as a sequence of rows.
Raster(sz, F(_, _)) == Line(sz[2], LAMBDA y : Line(sz[1], LAMBDA x : F(x, y)))

\* An image without a palette.
NewImage(m, sz, F(_, _)) ==
    [mode |-> m, size |-> sz, palette |-> <<>>, px |-> Raster(sz, F)]

\* The image with every pixel p replaced by F(p), in mode m.
PointOp(i, m, F(_)) == NewImage(m, i.size, LAMBDA x, y : F(i.px[y][x]))

\* The pixels row by row.
Flat(i) ==
    [k \in 1..(Width(i) * Height(i)) |->
        i.px[((k - 1) \div Width(i)) + 1][((k - 1) % Width(i)) + 1]]

\* (a + 127) / 255 rounded, as the imaging library divides by 255.
Div255(a) == LET tmp == a + 128 IN ((tmp \div 256) + tmp) \div 256

\* One band of background.paste(image, mask): in1 is the background.
Blend8(mask, in1, in2) == Div255(in1 * (WHITE - mask) + in2 * mask)

\* background = Image.new('RGBA', image.size, (255, 255, 255, 255))
\* background.paste(image, mask=image.split()[3]); background.convert('RGB')
OnWhite(p) == <<Blend8(p[4], WHITE, p[1]), Blend8(p[4], WHITE, p[2]),
                Blend8(p[4], WHITE, p[3])>>

\* image.convert('RGBA') of a 'P' image: the palette entry of each index.
Unpalettized(i) ==
    NewImage("RGBA", i.size, LAMBDA x, y : i.palette[i.px[y][x] + 1])

Replicated(p) == <<p, p, p>>

\* Step 1: flatten transparency onto a white background.
Flattened(i) ==
    IF i.mode = "RGBA" THEN PointOp(i, "RGB", OnWhite)
    ELSE IF i.mode = "P" THEN PointOp(Unpalettized(i), "RGB", OnWhite)
    ELSE IF i.mode # "RGB" THEN PointOp(i, "RGB", Replicated)
    ELSE i

\* image.convert('L') of an 'RGB' pixel (ITU-R 601-2 luma, 16 bit fixed point).
Luma(p) == (p[1] * 19595 + p[2] * 38470 + p[3] * 7471 + 32768) \div 65536

\* Step 2
Grayscale(i) == PointOp(i, "L", Luma)

\* The sum of the pixels of an 'L' image, from its histogram as ImageStat
\* computes it.
PixelSum(i) == WeightedSum(Histogram(Flat(i)), 0, LEVELS - 1)
PixelCount(i) == Width(i) * Height(i)

Inverse(p) == WHITE - p

\* Step 3: mean_val = ImageStat.Stat(image).mean[0]; invert when < 128.
Upright(i) ==
    IF PixelSum(i) < DARK_MEAN * PixelCount(i) THEN PointOp(i, "L", Inverse) ELSE i

Suppress(p) == IF p > GREY_CUTOFF THEN WHITE ELSE p

\* Step 4
Suppressed(i) == PointOp(i, "L", Suppress)

\* int(ImageStat.Stat(image).mean[0] + 0.5), the level of the degenerate image
RoundedMean(i) == (2 * PixelSum(i) + PixelCount(i)) \div (2 * PixelCount(i))

\* Image.blend(degenerate, image, 1.5) on one pixel: mean + 1.5 * (p - mean),
\* clipped to 0..255 and truncated.
Blend(mean, p) ==
    LET num == CONTRAST_DEN * mean + CONTRAST_NUM * (p - mean)
    IN  IF num <= 0 THEN BLACK
        ELSE IF num >= CONTRAST_DEN * WHITE THEN WHITE
        ELSE num \div CONTRAST_DEN

\* Step 5: ImageEnhance.Contrast(image).enhance(1.5)
Enhanced(i) ==
    LET mean == RoundedMean(i)
        F(p) == Blend(mean, p)
    IN  PointOp(i, "L", F)

\* The next n iterations of `for t in range(256)`, or fewer when the loop
\* ends before.
RECURSIVE OtsuIterations(_, _)
OtsuIterations(s, n) ==
    IF n = 1 THEN OtsuIteration(s)
    ELSE LET half == OtsuIterations(s, n \div 2)
         IN  IF half.looping THEN OtsuIterations(half, n - (n \div 2)) ELSE half

\* _otsu_threshold(image)
OtsuThreshold(pixels) == OtsuIterations(OtsuStart(pixels), LEVELS).best_threshold

\* Step 6
Thresholded(i) ==
    LET threshold == OtsuThreshold(Flat(i))
        F(p) == IF p > threshold THEN WHITE ELSE BLACK
    IN  PointOp(i, "L", F)

Clamp(v, lo, hi) == IF v < lo THEN lo ELSE IF v > hi THEN hi ELSE v

\* The median of the MEDIAN_SIZE x MEDIAN_SIZE window around (x, y); the
\* filter extends the image by repeating its edge pixels.
Median(i, x, y) ==
    LET r == MEDIAN_SIZE \div 2
        window == (0 - r)..r
        At(dx, dy) == i.px[Clamp(y + dy, 1, Height(i))][Clamp(x + dx, 1, Width(i))]
        rank == (MEDIAN_SIZE * MEDIAN_SIZE) \div 2
        Below(v) == Cardinality({d \in window \X window : At(d[1], d[2]) < v})
        UpTo(v) == Cardinality({d \in window \X window : At(d[1], d[2]) <= v})
    IN  CHOOSE v \in {At(d[1], d[2]) : d \in window \X window} :
            Below(v) <= rank /\ UpTo(v) > rank

\* Step 7: image.filter(ImageFilter.MedianFilter(size=3))
Filtered(i) == NewImage(i.mode, i.size, LAMBDA x, y : Median(i, x, y))

\* image.crop((border_crop, border_crop, w - border_crop, h - border_crop))
Cropped(i) ==
    LET w == Width(i) - 2 * BORDER_CROP
        h == Height(i) - 2 * BORDER_CROP
    IN  NewImage(i.mode, <<w, h>>, LAMBDA x, y : i.px[y + BORDER_CROP][x + BORDER_CROP])

\* ImageOps.expand(image, border=15, fill=255)
Expanded(i) ==
    LET w == Width(i) + 2 * PADDING
        h == Height(i) + 2 * PADDING
        Inside(x, y) == /\ x > PADDING /\ x <= PADDING + Width(i)
                        /\ y > PADDING /\ y <= PADDING + Height(i)
    IN  NewImage(i.mode, <<w, h>>,
                 LAMBDA x, y : IF Inside(x, y) THEN i.px[y - PADDING][x - PADDING]
                               ELSE WHITE)

\* Step 8: crop the edges, pad with white.
Framed(i) ==
    IF /\ Width(i) > 2 * BORDER_CROP + CROP_MARGIN
       /\ Height(i) > 2 * BORDER_CROP + CROP_MARGIN
    THEN Expanded(Cropped(i))
    ELSE Expanded(i)


(***************************************************************************)
(* image.resize(size, Image.LANCZOS) of an 'L' image: the two passes of    *)
(* the imaging library's resampling, with its 22 bit fixed-point           *)
(* coefficients.  The Lanczos kernel is read from tables of its samples,   *)
(* rounded to KERNEL_BITS bits.                                            *)
(***************************************************************************)
LANCZOS_SUPPORT == 3
PRECISION_BITS == 22
KERNEL_BITS == 19
HALF_SHIFT == 11

\* round(2^19 * sinc(x) * sinc(x / 3)) at x = 1/16, 3/16, ..., 47/16 and at
\* x = 1/20, 3/20, ..., 59/20: the kernel samples of the upscaling factors
\* 400 / 50 and 400 / 40.
KernelTables ==
    [d \in {16, 20} |->
        IF d = 16
        THEN <<520554, 491319, 436151, 361173, 274448, 184844, 100834, 29412,
               -24700, -59454, -75442, -75478, -63884, -45638, -25521, -7428,
               6077, 13911, 16338, 14616, 10528, 5897, 2184, 236>>
        ELSE <<521896, 503023, 466651, 415399, 352885, 283397, 211503, 141657,
               77822, 23167, -20148, -51073, -69663, -76953, -74762, -65426,
               -51514, -35542, -19735, -5842, 4975, 12164, 15740, 16181,
               14282, 10989, 7246, 3857, 1393, 150>>]

Abs(a) == IF a < 0 THEN 0 - a ELSE a

\* lanczos_filter(num / den), in units of 2^-19: num / den is an odd
\* multiple of 1/16 or of 1/20.
Lanczos(num, den) ==
    IF Abs(num) >= LANCZOS_SUPPORT * den THEN 0
    ELSE LET d == CHOOSE d \in DOMAIN KernelTables :
                      (Abs(num) * d) % den = 0 /\ ((Abs(num) * d) \div den) % 2 = 1
         IN  KernelTables[d][(((Abs(num) * d) \div den) + 1) \div 2]

RECURSIVE SumSeq(_, _)
SumSeq(s, n) == IF n = 0 THEN 0 ELSE s[n] + SumSeq(s, n - 1)

\* (int)(0.5 + k / ww * (1 << PRECISION_BITS)), or -0.5 for a negative k:
\* the quotient in two halves of 11 bits, rounded half away from zero.
FixedCoefficient(k, ww) ==
    LET a == Abs(k)
        q1 == (a * Pow2(HALF_SHIFT)) \div ww
        r1 == (a * Pow2(HALF_SHIFT)) % ww
        q2 == (r1 * Pow2(HALF_SHIFT)) \div ww
        r2 == (r1 * Pow2(HALF_SHIFT)) % ww
        q == q1 * Pow2(HALF_SHIFT) + q2 + (IF 2 * r2 >= ww THEN 1 ELSE 0)
    IN  IF k < 0 THEN 0 - q ELSE q

\* precompute_coeffs for the output position xx (from 0): the first input
\* position and the normalized coefficients of its window.
Coefficients(inSize, outSize, xx) ==
    LET filterscale == Max(inSize, outSize)     \* times outSize
        center == (2 * xx + 1) * inSize         \* times 2 * outSize
        lo == center - 2 * LANCZOS_SUPPORT * filterscale + outSize
        hi == center + 2 * LANCZOS_SUPPORT * filterscale + outSize
        xmin == IF lo < 0 THEN 0 ELSE lo \div (2 * outSize)
        xmax == Min(inSize, hi \div (2 * outSize)) - xmin
        k == Line(xmax, LAMBDA x :
                Lanczos((2 * (x - 1 + xmin) + 1) * outSize - center, 2 * filterscale))
        ww == SumSeq(k, xmax)
    IN  [xmin |-> xmin,
         k |-> Line(xmax, LAMBDA x : FixedCoefficient(k[x], ww))]

\* clip8
Clip8(ss) == Clamp(ss \div Pow2(PRECISION_BITS), BLACK, WHITE)

\* ss0 = 1 << (PRECISION_BITS - 1); ss0 += pixel * k[x] along row y
RECURSIVE AccumulateRow(_, _, _, _)
AccumulateRow(i, y, c, x) ==
    IF x = 0 THEN Pow2(PRECISION_BITS - 1)
    ELSE i.px[y][c.xmin + x] * c.k[x] + AccumulateRow(i, y, c, x - 1)

\* the same along column x
RECURSIVE AccumulateColumn(_, _, _, _)
AccumulateColumn(i, x, c, y) ==
    IF y = 0 THEN Pow2(PRECISION_BITS - 1)
    ELSE i.px[c.xmin + y][x] * c.k[y] + AccumulateColumn(i, x, c, y - 1)

\* ImagingResampleHorizontal_8bpc
ResampledHorizontal(i, xsize) ==
    LET c == Line(xsize, LAMBDA xx : Coefficients(Width(i), xsize, xx - 1))
    IN  NewImage(i.mode, <<xsize, Height(i)>>,
                 LAMBDA xx, y : Clip8(AccumulateRow(i, y, c[xx], Len(c[xx].k))))

\* ImagingResampleVertical_8bpc
ResampledVertical(i, ysize) ==
    LET c == Line(ysize, LAMBDA yy : Coefficients(Height(i), ysize, yy - 1))
    IN  NewImage(i.mode, <<Width(i), ysize>>,
                 LAMBDA x, yy : Clip8(AccumulateColumn(i, x, c[yy], Len(c[yy].k))))

\* image.resize(size, Image.LANCZOS): the horizontal pass, then the vertical.
ResizedImage(i, sz) ==
    LET horizontal == IF sz[1] # Width(i) THEN ResampledHorizontal(i, sz[1]) ELSE i
    IN  IF sz[2] # Height(i) THEN ResampledVertical(horizontal, sz[2])
        ELSE horizontal

\* Step 9: resolution normalization.
Normalized(i) ==
    LET min_dim == Min(Width(i), Height(i))
        first == IF min_dim < MIN_DIM
                 THEN ResizedImage(i, Resized(i.size, MIN_DIM, min_dim))
                 ELSE i
        maxdim == Max(Width(first), Height(first))
    IN  IF maxdim > MAX_DIM
        THEN ResizedImage(first, Resized(first.size, MAX_DIM, maxdim))
        ELSE first


(***************************************************************************)
(* The screenshots preprocess_image is called with: a cross of foreground  *)
(* on a background, STROKE pixels thick, in each mode the decoder can      *)
(* hand over.                                                              *)
(***************************************************************************)
\* <<background, foreground>>, each <<r, g, b, a>>: a drawing, a blank page,
\* a dark theme, a transparent background, blue and red labels, a shaded
\* background, faint lines.
Schemes ==
    {<<<<255, 255, 255, 255>>, <<0, 0, 0, 255>>>>,
     <<<<255, 255, 255, 255>>, <<255, 255, 255, 255>>>>,
     <<<<0, 0, 0, 255>>, <<255, 255, 255, 255>>>>,
     <<<<0, 0, 0, 0>>, <<0, 0, 0, 255>>>>,
     <<<<255, 255, 255, 255>>, <<0, 0, 255, 255>>>>,
     <<<<255, 255, 255, 255>>, <<255, 0, 0, 255>>>>,
     <<<<200, 200, 200, 255>>, <<0, 0, 0, 255>>>>,
     <<<<255, 255, 255, 255>>, <<120, 120, 120, 255>>>>}

Modes == {"RGBA", "P", "RGB", "L"}

\* Bounds: the side of the smallest screenshot and the thickness of a stroke.
\* The larger screenshot is big enough for step 8 to crop it.
SmallSide == 10
STROKE == 3
LargeSide == 2 * SmallSide + 2 * BORDER_CROP
Sides == {SmallSide, LargeSide}

OnStroke(side, x, y) ==
    LET first == (side - STROKE) \div 2 + 1
        last == first + STROKE - 1
    IN  (x >= first /\ x <= last) \/ (y >= first /\ y <= last)

\* What the decoder stores for the colour c in mode m; index 0 of a palette
\* is the background, index 1 the foreground.
Stored(m, c, index) ==
    IF m = "RGBA" THEN c
    ELSE IF m = "RGB" THEN <<c[1], c[2], c[3]>>
    ELSE IF m = "L" THEN Luma(c)
    ELSE index

Screenshot(m, side, scheme) ==
    [mode |-> m, size |-> <<side, side>>,
     palette |-> IF m = "P" THEN scheme ELSE <<>>,
     px |-> Raster(<<side, side>>,
                   LAMBDA x, y : IF OnStroke(side, x, y) THEN Stored(m, scheme[2], 1)
                                 ELSE Stored(m, scheme[1], 0))]

Screenshots == {Screenshot(m, side, scheme) : m \in Modes, side \in Sides, scheme \in Schemes}

PipeInit == im \in Screenshots /\ step = 1

\* Step 1: Flatten transparency onto white background
FlattenTransparency ==
    /\ step = 1
    /\ im' = Flattened(im)
    /\ step' = 2
    /\ UNCHANGED nonPipeVars

\* Step 2: Convert to grayscale
ConvertToGrayscale ==
    /\ step = 2
    /\ im' = Grayscale(im)
    /\ step' = 3
    /\ UNCHANGED nonPipeVars

\* Step 3: Inversion detection for dark-theme websites
DetectInversion ==
    /\ step = 3
    /\ im' = Upright(im)
    /\ step' = 4
    /\ UNCHANGED nonPipeVars

\* Step 4: Remove grey background artifacts
RemoveGrey ==
    /\ step = 4
    /\ im' = Suppressed(im)
    /\ step' = 5
    /\ UNCHANGED nonPipeVars

\* Step 5: Contrast enhancement
EnhanceContrast ==
    /\ step = 5
    /\ im' = Enhanced(im)
    /\ step' = 6
    /\ UNCHANGED nonPipeVars

\* Step 6: Binary thresholding (Otsu's method)
BinaryThreshold ==
    /\ step = 6
    /\ im' = Thresholded(im)
    /\ step' = 7
    /\ UNCHANGED nonPipeVars

\* Step 7: Noise reduction
ReduceNoise ==
    /\ step = 7
    /\ im' = Filtered(im)
    /\ step' = 8
    /\ UNCHANGED nonPipeVars

\* Step 8: Crop edge artifacts and add white padding
CropAndPad ==
    /\ step = 8
    /\ im' = Framed(im)
    /\ step' = 9
    /\ UNCHANGED nonPipeVars

\* Step 9: Resolution normalization, and return image
NormalizeResolution ==
    /\ step = 9
    /\ im' = Normalized(im)
    /\ step' = 10
    /\ UNCHANGED nonPipeVars

PipeNext ==
    \/ FlattenTransparency \/ ConvertToGrayscale \/ DetectInversion
    \/ RemoveGrey \/ EnhanceContrast \/ BinaryThreshold
    \/ ReduceNoise \/ CropAndPad \/ NormalizeResolution

InitPipe == PipeInit /\ HandlerIdle /\ ResizeIdle /\ OtsuIdle

SpecPipe == InitPipe /\ [][PipeNext]_vars

\* The pixel values of an 'L' image.
Levels(i) == {i.px[y][x] : y \in 1..Height(i), x \in 1..Width(i)}

\* Steps 1-8 are done, step 9 has not run.
Step8Binary == step = 9 => Levels(im) \subseteq {BLACK, WHITE}

\* C1: the image preprocess_image returns is in mode 'L' and every pixel of
\* it is 0 or 255, after the resize of step 9 as well.
C1_OutputIsBinary ==
    step = 10 => im.mode = "L" /\ Levels(im) \subseteq {BLACK, WHITE}

=============================================================================
